---- MODULE Spec2Model ----
(***************************************************************************)
(* Model of responder3/core/logtask.py: the LogProcessor (the Dispatcher), *)
(* its extension registry and the TestExtension reference extension.       *)
(*                                                                         *)
(* The LogProcessor task and every extension task share one asyncio loop.  *)
(* An await on an unbounded Queue.put, or on a coroutine that never        *)
(* suspends, does not yield, so each action below is one uninterrupted     *)
(* stretch of one task.                                                    *)
(***************************************************************************)
EXTENDS Naturals, Sequences, FiniteSets

(* ---------------------------- bounds ----------------------------------- *)
MaxEvents == 2
MaxHandlers == 2

Fingerprints == {1, 2}

(* ---------------------------- state ------------------------------------ *)
VARIABLES
  log_settings,        \* constructor argument: log_ok, logdir, handlers
  pc,                  \* position of LogProcessor.run
  handler_index,       \* position of the get_handlers generator
  logger,              \* self.logger is set
  dirs,                \* directories made by create_dir_strucutre
  extension_task_id,   \* self.extension_task_id
  extensions_tasks,    \* self.extensions_tasks: taskid -> LogExtensionTaskEntry
  tasks,               \* coroutines scheduled with loop.create_task
  log_queue,           \* self.log_queue, the ingress queue
  result_history,      \* self.result_history: fingerprint -> Credential
  proxy_file_handler,  \* self.proxy_file_handler
  files,               \* artifact files under logdir, per subdirectory
  logrecords           \* records handed to self.logger.log

vars == <<log_settings, pc, handler_index, logger, dirs, extension_task_id,
          extensions_tasks, tasks, log_queue, result_history,
          proxy_file_handler, files, logrecords>>

(* ---------------------------- events ----------------------------------- *)
KnownKinds == {"Credential", "LogEntry", "Connection", "EmailEntry",
               "PoisonResult", "ProxyData"}

Kinds == KnownKinds \cup {"Unknown"}

HandlerNames == {"TEST", "MISSING"}

StartSteps == {"alloc", "construct", "coro", "register", "schedule"}

WriteOutcomes == {"ok", "write_fails", "sync_fails"}

Event(kind, fp, src, lvl, seq) ==
  [kind |-> kind, fingerprint |-> fp, src |-> src, level |-> lvl, seq |-> seq]

(* asyncio.Queue, unbounded: every item ever put, and how many were got.   *)
NewQueue == [items |-> << >>, got |-> 0]

QPut(q, x) == [q EXCEPT !.items = Append(@, x)]

QEmpty(q) == q.got = Len(q.items)

QHead(q) == q.items[q.got + 1]

QGet(q) == [q EXCEPT !.got = @ + 1]

QPending(q) == SubSeq(q.items, q.got + 1, Len(q.items))

(* ---------------------------- serialization ---------------------------- *)
ToJson(e) == [fmt |-> "json", kind |-> e.kind, seq |-> e.seq]

AsBytes(e) == [fmt |-> "eml", kind |-> e.kind, seq |-> e.seq]

ProxyLine(e) == [fmt |-> "json-crlf", kind |-> e.kind, seq |-> e.seq]

(* ---------------------------- logging ---------------------------------- *)
LogRecord(level, name, msg, exc, ev) ==
  [level |-> level, name |-> name, msg |-> msg, exc |-> exc, ev |-> ev]

logger_log(recs, log) ==
  Append(recs, LogRecord(log.level, log.name, log.msg, log.exc, log.ev))

log(recs, msg, level, ev) ==
  logger_log(recs, LogRecord(level, "LogProcessor", msg, "", ev))

log_exception(recs, message, exc, ev) ==
  logger_log(recs, LogRecord("ERROR", "LogProcessor", message, exc, ev))

(* ---------------------------- Init ------------------------------------- *)
HandlerLists == UNION {[1..n -> HandlerNames] : n \in 0..MaxHandlers}

NoHandle == [file |-> 0, closed |-> FALSE]

Init ==
  /\ log_settings \in [log_ok : BOOLEAN, logdir : BOOLEAN, handlers : HandlerLists]
  /\ pc = "start"
  /\ handler_index = 1
  /\ logger = FALSE
  /\ dirs = {}
  /\ extension_task_id = 0
  /\ extensions_tasks = << >>
  /\ tasks = << >>
  /\ log_queue = NewQueue
  /\ result_history = << >>
  /\ proxy_file_handler = NoHandle
  /\ files = [creds |-> << >>, emails |-> << >>, poisondata |-> << >>,
              proxydata |-> << >>]
  /\ logrecords = << >>

(* ---------------------------- startup ---------------------------------- *)
Put(f, k, v) == [x \in DOMAIN f \cup {k} |-> IF x = k THEN v ELSE f[x]]

Subdirs == {"emails", "proxydata", "poisondata", "creds"}

create_dir_strucutre == IF log_settings.logdir THEN {"logdir"} \cup Subdirs ELSE {}

LogExtensionTaskEntry(taskid) ==
  [taskid |-> taskid, extension_config |-> 0, extension_handler |-> "",
   extension_log_queue |-> NewQueue]

NewTask == [state |-> "running", output_queue |-> << >>]

(* finally: of run() *)
CloseProxyFile(h) == IF h.file # 0 THEN [h EXCEPT !.closed = TRUE] ELSE h

(* except Exception of run(): the error is logged and run() ends.          *)
RunException(recs, exc, ev) ==
  /\ logrecords' = log_exception(recs, "Logger main task exception", exc, ev)
  /\ pc' = "dead"

(* run() up to create_dir_strucutre.  An invalid 'log' block makes         *)
(* dictConfig raise; the except clause then logs through self.logger,      *)
(* which is still None, so that second error escapes run().                *)
SetupBegin ==
  /\ pc = "start"
  /\ IF log_settings.log_ok
       THEN /\ logger' = TRUE
            /\ dirs' = create_dir_strucutre
            /\ pc' = "setup"
       ELSE /\ pc' = "dead"
            /\ UNCHANGED <<logger, dirs>>
  /\ UNCHANGED <<log_settings, handler_index, extension_task_id,
                 extensions_tasks, tasks, log_queue, result_history,
                 proxy_file_handler, files, logrecords>>

(* Variant: the id counter advances only once the entry is registered, so  *)
(* a start that fails earlier leaves its id to the next start.             *)
start_extension_IdAfterRegister(handler, extension_config, failAt) ==
  LET taskid == extension_task_id
      let == [LogExtensionTaskEntry(taskid) EXCEPT
                !.extension_config = extension_config,
                !.extension_handler = handler]
  IN  /\ extension_task_id' = IF failAt \in {"schedule", "none"}
                                THEN taskid + 1
                                ELSE taskid
      /\ extensions_tasks' = IF failAt \in {"schedule", "none"}
                               THEN Put(extensions_tasks, taskid, let)
                               ELSE extensions_tasks
      /\ tasks' = IF failAt = "none" THEN Put(tasks, taskid, NewTask) ELSE tasks
      /\ logrecords' = IF failAt = "none"
                         THEN logrecords
                         ELSE log_exception(logrecords, "", failAt, extension_config)
      /\ pc' = pc

(* Variant: the constructor call sits outside the try block, so an error  *)
(* in it reaches the except clause of run().                               *)
start_extension_ConstructEscapes(handler, extension_config, failAt) ==
  LET taskid == extension_task_id
      let == [LogExtensionTaskEntry(taskid) EXCEPT
                !.extension_config = extension_config,
                !.extension_handler = handler]
  IN  /\ extension_task_id' = IF failAt = "alloc" THEN taskid ELSE taskid + 1
      /\ extensions_tasks' = IF failAt \in {"schedule", "none"}
                               THEN Put(extensions_tasks, taskid, let)
                               ELSE extensions_tasks
      /\ tasks' = IF failAt = "none" THEN Put(tasks, taskid, NewTask) ELSE tasks
      /\ IF failAt = "construct"
           THEN RunException(logrecords, failAt, extension_config)
           ELSE /\ logrecords' = IF failAt = "none"
                                   THEN logrecords
                                   ELSE log_exception(logrecords, "", failAt,
                                                      extension_config)
                /\ pc' = pc

(* start_extension: failAt names the statement that raises, "none" if no   *)
(* statement does.  extension_config is the handler's configuration block, *)
(* named here by the handler's position in log_settings.handlers.  The     *)
(* except clause logs the traceback, which names the failing statement.    *)
start_extension(handler, extension_config, failAt) ==
  LET taskid == extension_task_id
      let == [LogExtensionTaskEntry(taskid) EXCEPT
                !.extension_config = extension_config,
                !.extension_handler = handler]
  IN  /\ extension_task_id' = IF failAt = "alloc" THEN taskid ELSE taskid + 1
      /\ extensions_tasks' = IF failAt \in {"schedule", "none"}
                               THEN Put(extensions_tasks, taskid, let)
                               ELSE extensions_tasks
      /\ tasks' = IF failAt = "none" THEN Put(tasks, taskid, NewTask) ELSE tasks
      /\ logrecords' = IF failAt = "none"
                         THEN logrecords
                         ELSE log_exception(logrecords, "", failAt, extension_config)
      /\ pc' = pc

(* Variant: a handler that cannot be resolved undoes the starts before it: *)
(* the registry is emptied and the scheduled tasks are ended.              *)
SetupHandler_RollsBack ==
  /\ pc = "setup"
  /\ handler_index <= Len(log_settings.handlers)
  /\ LET handler == log_settings.handlers[handler_index]
     IN  IF handler = "TEST"
           THEN \E failAt \in StartSteps \cup {"none"} :
                  start_extension(handler, handler_index, failAt)
           ELSE /\ RunException(logrecords, "import", handler_index)
                /\ extensions_tasks' = << >>
                /\ tasks' = [t \in DOMAIN tasks |->
                               [tasks[t] EXCEPT !.state = "ended"]]
                /\ UNCHANGED extension_task_id
  /\ handler_index' = handler_index + 1
  /\ UNCHANGED <<log_settings, logger, dirs, log_queue, result_history,
                 proxy_file_handler, files>>

(* Variant: a handler that cannot be imported is logged and skipped.       *)
SetupHandler_SkipsUnresolved ==
  /\ pc = "setup"
  /\ handler_index <= Len(log_settings.handlers)
  /\ LET handler == log_settings.handlers[handler_index]
     IN  IF handler = "TEST"
           THEN \E failAt \in StartSteps \cup {"none"} :
                  start_extension(handler, handler_index, failAt)
           ELSE /\ logrecords' = log_exception(logrecords, "", "import",
                                               handler_index)
                /\ pc' = pc
                /\ UNCHANGED <<extension_task_id, extensions_tasks, tasks>>
  /\ handler_index' = handler_index + 1
  /\ UNCHANGED <<log_settings, logger, dirs, log_queue, result_history,
                 proxy_file_handler, files>>

(* One round of the for loop of setup(): get_handlers resolves the next    *)
(* handler, start_extension starts it.  A handler that cannot be imported  *)
(* raises out of setup() into the except clause of run().  get_handlers    *)
(* calls self.log without awaiting it, so its debug message is not logged. *)
SetupHandler ==
  /\ pc = "setup"
  /\ handler_index <= Len(log_settings.handlers)
  /\ LET handler == log_settings.handlers[handler_index]
     IN  IF handler = "TEST"
           THEN \E failAt \in StartSteps \cup {"none"} :
                  start_extension(handler, handler_index, failAt)
           ELSE /\ RunException(logrecords, "import", handler_index)
                /\ UNCHANGED <<extension_task_id, extensions_tasks, tasks>>
  /\ handler_index' = handler_index + 1
  /\ UNCHANGED <<log_settings, logger, dirs, log_queue, result_history,
                 proxy_file_handler, files>>

(* Variant: 'setup done' is sent the way an extension logs, as a LogEntry  *)
(* put on the ingress queue.                                               *)
SetupDone_LogsThroughQueue ==
  /\ pc = "setup"
  /\ handler_index > Len(log_settings.handlers)
  /\ log_queue' = [log_queue EXCEPT !.items =
                     Append(@, Event("LogEntry", 0, "LogProcessor", "DEBUG",
                                     Len(log_queue.items) + 1))]
  /\ pc' = "run"
  /\ UNCHANGED <<log_settings, handler_index, logger, dirs, extension_task_id,
                 extensions_tasks, tasks, result_history, proxy_file_handler,
                 files, logrecords>>

(* setup() returns; run() logs 'setup done' and enters the loop.           *)
SetupDone ==
  /\ pc = "setup"
  /\ handler_index > Len(log_settings.handlers)
  /\ logrecords' = log(logrecords, "setup done", "DEBUG", 0)
  /\ pc' = "run"
  /\ UNCHANGED <<log_settings, handler_index, logger, dirs, extension_task_id,
                 extensions_tasks, tasks, log_queue, result_history,
                 proxy_file_handler, files>>

(* ---------------------------- handlers --------------------------------- *)
(* Each handler sets files, result_history, proxy_file_handler, logrecords *)
(* and pc; pc becomes "dead" when the handler's error reaches run().       *)

handle_log(result) ==
  /\ logrecords' = logger_log(logrecords,
                     LogRecord(result.level, result.src, "LogEntry", "", result.seq))
  /\ pc' = pc
  /\ UNCHANGED <<files, result_history, proxy_file_handler>>

(* handle_connection is a plain function: it logs and returns None, and    *)
(* run() awaits that None, which raises TypeError inside run()'s try.      *)
handle_connection(result) ==
  /\ RunException(
       logger_log(logrecords,
         LogRecord("INFO", "Responder3", "Connection", "", result.seq)),
       "await None", result.seq)
  /\ proxy_file_handler' = CloseProxyFile(proxy_file_handler)
  /\ UNCHANGED <<files, result_history>>

(* Variant: the cache entry is replaced by the latest credential with the  *)
(* fingerprint.                                                            *)
handle_credential_OverwritesHistory(result) ==
  /\ files' = IF log_settings.logdir
                THEN [files EXCEPT !.creds = Append(@, ToJson(result))]
                ELSE files
  /\ IF result.fingerprint \notin DOMAIN result_history
       THEN logrecords' = log(logrecords, "Credential", "INFO", result.seq)
       ELSE logrecords' = log(logrecords, "Duplicate result found! Filtered.",
                              "INFO", result.seq)
  /\ result_history' = Put(result_history, result.fingerprint, result)
  /\ pc' = pc
  /\ UNCHANGED proxy_file_handler

(* Variant: the artifact is written only for a fingerprint not seen yet.   *)
handle_credential_PersistsNewOnly(result) ==
  /\ files' = IF log_settings.logdir
                 /\ result.fingerprint \notin DOMAIN result_history
                THEN [files EXCEPT !.creds = Append(@, ToJson(result))]
                ELSE files
  /\ IF result.fingerprint \notin DOMAIN result_history
       THEN /\ logrecords' = log(logrecords, "Credential", "INFO", result.seq)
            /\ result_history' = Put(result_history, result.fingerprint, result)
       ELSE /\ logrecords' = log(logrecords, "Duplicate result found! Filtered.",
                                 "INFO", result.seq)
            /\ UNCHANGED result_history
  /\ pc' = pc
  /\ UNCHANGED proxy_file_handler

handle_credential(result) ==
  /\ files' = IF log_settings.logdir
                THEN [files EXCEPT !.creds = Append(@, ToJson(result))]
                ELSE files
  /\ IF result.fingerprint \notin DOMAIN result_history
       THEN /\ logrecords' = log(logrecords, "Credential", "INFO", result.seq)
            /\ result_history' = Put(result_history, result.fingerprint, result)
       ELSE /\ logrecords' = log(logrecords, "Duplicate result found! Filtered.",
                                 "INFO", result.seq)
            /\ UNCHANGED result_history
  /\ pc' = pc
  /\ UNCHANGED proxy_file_handler

handle_email(result) ==
  /\ files' = IF log_settings.logdir
                THEN [files EXCEPT !.emails = Append(@, AsBytes(result))]
                ELSE files
  /\ logrecords' = log(logrecords, "You got mail!", "INFO", result.seq)
  /\ pc' = pc
  /\ UNCHANGED <<result_history, proxy_file_handler>>

handle_poisonresult(result) ==
  /\ files' = IF log_settings.logdir
                THEN [files EXCEPT !.poisondata = Append(@, ToJson(result))]
                ELSE files
  /\ logrecords' = log(logrecords, "PoisonResult", "INFO", result.seq)
  /\ pc' = pc
  /\ UNCHANGED <<result_history, proxy_file_handler>>

(* The except clause of handle_proxydata calls self.log_exception without  *)
(* awaiting it: the coroutine object is dropped and nothing is logged.     *)
ProxyWriteFailed(recs) == recs

(* Variant: the 'is None' test is missing, every event opens a file.       *)
handle_proxydata_ReopensFile(result, outcome) ==
  LET opens    == log_settings.logdir
      opened   == IF opens
                    THEN [files EXCEPT !.proxydata = Append(@, << >>)]
                    ELSE files
      handle   == IF opens
                    THEN [file |-> Len(opened.proxydata), closed |-> FALSE]
                    ELSE proxy_file_handler
      written  == [opened EXCEPT !.proxydata[handle.file] =
                                     Append(@, ProxyLine(result))]
  IN  /\ proxy_file_handler' = handle
      /\ pc' = pc
      /\ UNCHANGED result_history
      /\ IF handle.file = 0
           THEN /\ outcome = "ok"
                /\ files' = opened
                /\ logrecords' = log(logrecords, "ProxyData", "DEBUG", result.seq)
           ELSE CASE outcome = "ok" ->
                       /\ files' = written
                       /\ logrecords' = log(logrecords, "ProxyData", "DEBUG",
                                            result.seq)
                  [] outcome = "write_fails" ->
                       /\ files' = opened
                       /\ logrecords' = ProxyWriteFailed(logrecords)
                  [] outcome = "sync_fails" ->
                       /\ files' = written
                       /\ logrecords' = ProxyWriteFailed(logrecords)

handle_proxydata(result, outcome) ==
  LET opens    == log_settings.logdir /\ proxy_file_handler.file = 0
      opened   == IF opens
                    THEN [files EXCEPT !.proxydata = Append(@, << >>)]
                    ELSE files
      handle   == IF opens
                    THEN [file |-> Len(opened.proxydata), closed |-> FALSE]
                    ELSE proxy_file_handler
      written  == [opened EXCEPT !.proxydata[handle.file] =
                                     Append(@, ProxyLine(result))]
  IN  /\ proxy_file_handler' = handle
      /\ pc' = pc
      /\ UNCHANGED result_history
      /\ IF handle.file = 0
           THEN /\ outcome = "ok"
                /\ files' = opened
                /\ logrecords' = log(logrecords, "ProxyData", "DEBUG", result.seq)
           ELSE CASE outcome = "ok" ->
                       /\ files' = written
                       /\ logrecords' = log(logrecords, "ProxyData", "DEBUG",
                                            result.seq)
                  [] outcome = "write_fails" ->
                       /\ files' = opened
                       /\ logrecords' = ProxyWriteFailed(logrecords)
                  [] outcome = "sync_fails" ->
                       /\ files' = written
                       /\ logrecords' = ProxyWriteFailed(logrecords)

(* Variant: the unknown object is logged and the loop goes on.             *)
handle_unknown_LogsAndContinues(result) ==
  /\ logrecords' = log_exception(logrecords, "Logger main task exception",
                                 "Unknown object in queue!", result.seq)
  /\ pc' = pc
  /\ UNCHANGED <<files, result_history, proxy_file_handler>>

handle_unknown(result) ==
  /\ RunException(logrecords, "Unknown object in queue!", result.seq)
  /\ proxy_file_handler' = CloseProxyFile(proxy_file_handler)
  /\ UNCHANGED <<files, result_history>>

(* ---------------------------- the run loop ----------------------------- *)
(* Variant: the mailbox of an extension whose task has ended is skipped.   *)
Broadcast_SkipsEnded(entries, result) ==
  [taskid \in DOMAIN entries |->
     IF taskid \in DOMAIN tasks /\ tasks[taskid].state = "ended"
       THEN entries[taskid]
       ELSE [entries[taskid] EXCEPT !.extension_log_queue = QPut(@, result)]]

(* for taskid in self.extensions_tasks: ...extension_log_queue.put(result) *)
Broadcast(entries, result) ==
  [taskid \in DOMAIN entries |->
     [entries[taskid] EXCEPT !.extension_log_queue = QPut(@, result)]]

Dispatch(result) ==
  \/ /\ result.kind = "Credential"   /\ handle_credential(result)
  \/ /\ result.kind = "LogEntry"     /\ handle_log(result)
  \/ /\ result.kind = "Connection"   /\ handle_connection(result)
  \/ /\ result.kind = "EmailEntry"   /\ handle_email(result)
  \/ /\ result.kind = "PoisonResult" /\ handle_poisonresult(result)
  \/ /\ result.kind = "ProxyData"
     /\ \E outcome \in WriteOutcomes : handle_proxydata(result, outcome)
  \/ /\ result.kind \notin KnownKinds /\ handle_unknown(result)

(* Variant: the mailboxes are bounded (one slot), so the loop cannot take  *)
(* the next event while some mailbox is full.                              *)
RunIteration_WaitsForMailboxes ==
  /\ pc = "run"
  /\ ~QEmpty(log_queue)
  /\ \A taskid \in DOMAIN extensions_tasks :
       QEmpty(extensions_tasks[taskid].extension_log_queue)
  /\ LET result == QHead(log_queue)
     IN  /\ log_queue' = QGet(log_queue)
         /\ extensions_tasks' = Broadcast(extensions_tasks, result)
         /\ Dispatch(result)
  /\ UNCHANGED <<log_settings, handler_index, logger, dirs, extension_task_id,
                 tasks>>

(* Variant: the event is dispatched first and broadcast afterwards, so an  *)
(* event whose handling raises is never broadcast.                         *)
RunIteration_DispatchesFirst ==
  /\ pc = "run"
  /\ ~QEmpty(log_queue)
  /\ LET result == QHead(log_queue)
     IN  /\ log_queue' = QGet(log_queue)
         /\ Dispatch(result)
         /\ extensions_tasks' = IF pc' = "dead"
                                  THEN extensions_tasks
                                  ELSE Broadcast(extensions_tasks, result)
  /\ UNCHANGED <<log_settings, handler_index, logger, dirs, extension_task_id,
                 tasks>>

(* One round of the while loop of run().                                   *)
RunIteration ==
  /\ pc = "run"
  /\ ~QEmpty(log_queue)
  /\ LET result == QHead(log_queue)
     IN  /\ log_queue' = QGet(log_queue)
         /\ extensions_tasks' = Broadcast(extensions_tasks, result)
         /\ Dispatch(result)
  /\ UNCHANGED <<log_settings, handler_index, logger, dirs, extension_task_id,
                 tasks>>

(* ---------------------------- extensions ------------------------------- *)
ModuleName == "LogExt-TestExtension"

Mailbox(taskid) == extensions_tasks[taskid].extension_log_queue

(* TestExtension.main: result = await self.result_queue.get();             *)
(* self.output_queue.put(result)                                           *)
ExtForward(taskid) ==
  /\ tasks[taskid].state = "running"
  /\ ~QEmpty(Mailbox(taskid))
  /\ extensions_tasks' = [extensions_tasks EXCEPT
                            ![taskid].extension_log_queue = QGet(@)]
  /\ tasks' = [tasks EXCEPT ![taskid].output_queue =
                              Append(@, QHead(Mailbox(taskid)))]
  /\ UNCHANGED <<log_settings, pc, handler_index, logger, dirs,
                 extension_task_id, log_queue, result_history,
                 proxy_file_handler, files, logrecords>>

(* Variant: an extension that ends by an error is taken out of the         *)
(* registry.                                                               *)
ExtRaise_Unregisters(taskid) ==
  /\ Len(log_queue.items) < MaxEvents
  /\ tasks[taskid].state = "running"
  /\ ~QEmpty(Mailbox(taskid))
  /\ extensions_tasks' = [t \in DOMAIN extensions_tasks \ {taskid} |->
                            extensions_tasks[t]]
  /\ tasks' = [tasks EXCEPT ![taskid].state = "ended"]
  /\ log_queue' = QPut(log_queue,
                    Event("LogEntry", 0, ModuleName, "ERROR",
                          Len(log_queue.items) + 1))
  /\ UNCHANGED <<log_settings, pc, handler_index, logger, dirs,
                 extension_task_id, result_history, proxy_file_handler,
                 files, logrecords>>

(* Variant: the extension's error is not contained in its own task and    *)
(* ends the LogProcessor loop as well.                                     *)
ExtRaise_EndsLoop(taskid) ==
  /\ Len(log_queue.items) < MaxEvents
  /\ tasks[taskid].state = "running"
  /\ ~QEmpty(Mailbox(taskid))
  /\ extensions_tasks' = [extensions_tasks EXCEPT
                            ![taskid].extension_log_queue = QGet(@)]
  /\ tasks' = [tasks EXCEPT ![taskid].state = "ended"]
  /\ log_queue' = QPut(log_queue,
                    Event("LogEntry", 0, ModuleName, "ERROR",
                          Len(log_queue.items) + 1))
  /\ pc' = "dead"
  /\ UNCHANGED <<log_settings, handler_index, logger, dirs,
                 extension_task_id, result_history, proxy_file_handler,
                 files, logrecords>>

(* output_queue.put raises: main's except clause sends the traceback to    *)
(* the ingress queue through LoggerExtensionTask.log, and the task ends.   *)
(* The ingress queue is unbounded; MaxEvents caps what a run puts on it.   *)
ExtRaise(taskid) ==
  /\ Len(log_queue.items) < MaxEvents
  /\ tasks[taskid].state = "running"
  /\ ~QEmpty(Mailbox(taskid))
  /\ extensions_tasks' = [extensions_tasks EXCEPT
                            ![taskid].extension_log_queue = QGet(@)]
  /\ tasks' = [tasks EXCEPT ![taskid].state = "ended"]
  /\ log_queue' = QPut(log_queue,
                    Event("LogEntry", 0, ModuleName, "ERROR",
                          Len(log_queue.items) + 1))
  /\ UNCHANGED <<log_settings, pc, handler_index, logger, dirs,
                 extension_task_id, result_history, proxy_file_handler,
                 files, logrecords>>

(* ---------------------------- producers -------------------------------- *)
Enqueue(kind, fp) ==
  /\ Len(log_queue.items) < MaxEvents
  /\ log_queue' = QPut(log_queue,
                    Event(kind, fp, "producer", "INFO", Len(log_queue.items) + 1))
  /\ UNCHANGED <<log_settings, pc, handler_index, logger, dirs,
                 extension_task_id, extensions_tasks, tasks, result_history,
                 proxy_file_handler, files, logrecords>>

Produce ==
  \/ \E fp \in Fingerprints : Enqueue("Credential", fp)
  \/ \E kind \in Kinds \ {"Credential"} : Enqueue(kind, 0)

(* ---------------------------- specification ---------------------------- *)
Next ==
  \/ SetupBegin
  \/ SetupHandler
  \/ SetupDone
  \/ RunIteration
  \/ \E taskid \in DOMAIN tasks : ExtForward(taskid)
  \/ \E taskid \in DOMAIN tasks : ExtRaise(taskid)
  \/ Produce

Spec == Init /\ [][Next]_vars

(* The event loop runs every task that is ready: the LogProcessor task is  *)
(* resumed whenever it can go on.  Nothing makes producers or extensions   *)
(* act.                                                                    *)
FairSpec ==
  /\ Spec
  /\ WF_vars(SetupBegin)
  /\ WF_vars(SetupHandler)
  /\ WF_vars(SetupDone)
  /\ WF_vars(RunIteration)

(* ======================================================================= *)
(* Properties                                                              *)
(* ======================================================================= *)
Dequeued == SubSeq(log_queue.items, 1, log_queue.got)

Received(taskid) == extensions_tasks[taskid].extension_log_queue.items

OfKind(events, kind) == SelectSeq(events, LAMBDA e : e.kind = kind)

Logged(level, msg, ev) ==
  \E i \in 1..Len(logrecords) :
    /\ logrecords[i].level = level
    /\ logrecords[i].msg = msg
    /\ logrecords[i].ev = ev

SetupCompleted == Logged("DEBUG", "setup done", 0)

Registered(extension_config) ==
  \E taskid \in DOMAIN extensions_tasks :
    extensions_tasks[taskid].extension_config = extension_config

(* The LogProcessor has nothing left it could process.                     *)
Quiescent == pc = "dead" \/ (pc = "run" /\ QEmpty(log_queue))

(* C1: after a completed startup, when every event put on the ingress      *)
(* queue is of one of the six kinds and the LogProcessor has processed all *)
(* it can, every registered mailbox has received exactly the ingress       *)
(* sequence, in order.                                                     *)
C1_BroadcastFidelity ==
  ( /\ SetupCompleted
    /\ \A i \in 1..Len(log_queue.items) : log_queue.items[i].kind \in KnownKinds
    /\ Quiescent )
  => \A taskid \in DOMAIN extensions_tasks : Received(taskid) = log_queue.items

(* C2: with logdir configured, the first Credential of a fingerprint is    *)
(* logged as new, a repeat is logged as a filtered duplicate, and the      *)
(* number of credential artifacts equals the number of distinct            *)
(* fingerprints seen.                                                      *)
C2_OneArtifactPerFingerprint ==
  log_settings.logdir =>
    /\ \A i \in 1..Len(Dequeued) :
         Dequeued[i].kind = "Credential" =>
           IF \E j \in 1..(i - 1) :
                /\ Dequeued[j].kind = "Credential"
                /\ Dequeued[j].fingerprint = Dequeued[i].fingerprint
             THEN Logged("INFO", "Duplicate result found! Filtered.", Dequeued[i].seq)
             ELSE Logged("INFO", "Credential", Dequeued[i].seq)
    /\ Len(files.creds) = Cardinality(DOMAIN result_history)

(* C3: with logdir configured, the creds, emails and poisondata            *)
(* directories hold exactly one artifact per handled Credential,           *)
(* EmailEntry and PoisonResult event, in handling order, each holding the  *)
(* serialized form of its event.                                           *)
C3_OneArtifactPerEvent ==
  log_settings.logdir =>
    /\ files.creds =
         [i \in 1..Len(OfKind(Dequeued, "Credential")) |->
            ToJson(OfKind(Dequeued, "Credential")[i])]
    /\ files.emails =
         [i \in 1..Len(OfKind(Dequeued, "EmailEntry")) |->
            AsBytes(OfKind(Dequeued, "EmailEntry")[i])]
    /\ files.poisondata =
         [i \in 1..Len(OfKind(Dequeued, "PoisonResult")) |->
            ToJson(OfKind(Dequeued, "PoisonResult")[i])]

(* Two Credential events of one fingerprint were handled and each left     *)
(* its own artifact.                                                       *)
C3_Witness ==
  /\ log_settings.logdir
  /\ Len(files.creds) = 2
  /\ Cardinality(DOMAIN result_history) = 1

ProxyEvents == OfKind(Dequeued, "ProxyData")

(* C4 as stated: with logdir configured at most one proxy-data file is     *)
(* opened, and once ProxyData events were handled it holds exactly one     *)
(* line per handled event, in arrival order.                               *)
C4_OneLinePerEvent ==
  log_settings.logdir =>
    /\ Len(files.proxydata) <= 1
    /\ ProxyEvents # << >> =>
         /\ Len(files.proxydata) = 1
         /\ files.proxydata[1] =
              [i \in 1..Len(ProxyEvents) |-> ProxyLine(ProxyEvents[i])]

(* C4, amended: with logdir configured at most one proxy-data file is      *)
(* opened and its handle is kept after a failed write; the file holds at   *)
(* most one line per handled ProxyData event, in arrival order, and holds  *)
(* the line of every event whose write completed (the events logged at     *)
(* debug severity).                                                        *)
C4_OneLinePerWrittenEvent ==
  log_settings.logdir =>
    /\ Len(files.proxydata) <= 1
    /\ ProxyEvents # << >> =>
         /\ Len(files.proxydata) = 1
         /\ proxy_file_handler.file = 1
         /\ LET lines == files.proxydata[1]
            IN  /\ \A i \in 1..Len(lines) :
                     \E j \in 1..Len(ProxyEvents) :
                       lines[i] = ProxyLine(ProxyEvents[j])
                /\ \A i, k \in 1..Len(lines) :
                     i < k => lines[i].seq < lines[k].seq
                /\ \A j \in 1..Len(ProxyEvents) :
                     Logged("DEBUG", "ProxyData", ProxyEvents[j].seq) =>
                       \E i \in 1..Len(lines) :
                         lines[i] = ProxyLine(ProxyEvents[j])

(* The first ProxyData write failed, the second went to the same file.     *)
C4_Witness ==
  /\ log_settings.logdir
  /\ Len(ProxyEvents) = 2
  /\ Len(files.proxydata) = 1
  /\ files.proxydata[1] = <<ProxyLine(ProxyEvents[2])>>
  /\ ~Logged("DEBUG", "ProxyData", ProxyEvents[1].seq)

Unresolvable ==
  \E i \in 1..Len(log_settings.handlers) : log_settings.handlers[i] = "MISSING"

(* C5: when a configured handler cannot be resolved the loop is never      *)
(* entered: no event is dequeued and no mailbox, also of a handler started *)
(* before the unresolvable one, receives an event.                         *)
C5_UnresolvedHandlerStopsStartup ==
  Unresolvable =>
    /\ pc # "run"
    /\ log_queue.got = 0
    /\ \A taskid \in DOMAIN extensions_tasks : Received(taskid) = << >>

(* A handler was started, the next one could not be resolved, and an       *)
(* event waits on the ingress queue of the ended LogProcessor.             *)
C5_Witness ==
  /\ log_settings.handlers = <<"TEST", "MISSING">>
  /\ pc = "dead"
  /\ 0 \in DOMAIN tasks
  /\ Received(0) = << >>
  /\ Len(log_queue.items) >= 1

(* C6: once an extension's task has ended on an error, every other         *)
(* registered mailbox still holds every event dequeued so far, in order,   *)
(* and the loop has ended only if the last dequeued event was one the      *)
(* loop itself fails on, never because of the extension.                   *)
C6_ExtensionFailureIsolated ==
  \A t \in DOMAIN tasks :
    tasks[t].state = "ended" =>
      /\ \A u \in DOMAIN extensions_tasks \ {t} : Received(u) = Dequeued
      /\ pc = "dead" =>
           /\ log_queue.got > 0
           /\ Dequeued[log_queue.got].kind \in {"Connection", "Unknown"}

(* Extension 0 raised on the first event; the loop then dequeued the       *)
(* extension's error entry and extension 1 received it.                    *)
C6_Witness ==
  /\ 0 \in DOMAIN tasks
  /\ tasks[0].state = "ended"
  /\ 1 \in DOMAIN extensions_tasks
  /\ pc = "run"
  /\ Len(Received(1)) = 2
  /\ Received(1)[2].src = ModuleName

(* C7: a start_extension call that failed, at whichever statement, left    *)
(* the extension out of the registry.                                      *)
C7_FailedStartNotRegistered ==
  \A i \in 1..Len(logrecords) :
    logrecords[i].exc \in StartSteps =>
      /\ logrecords[i].level = "ERROR"
      /\ ~Registered(logrecords[i].ev)

(* C8 as stated: once the construction of an extension has failed, no      *)
(* event is dequeued and no mailbox receives an event.                     *)
C8_ConstructFailureStopsStartup ==
  (\E i \in 1..Len(logrecords) : logrecords[i].exc = "construct") =>
    /\ pc # "run"
    /\ log_queue.got = 0
    /\ \A taskid \in DOMAIN extensions_tasks : Received(taskid) = << >>

(* C8, amended: a failed construction is logged once as an error by        *)
(* start_extension and not retried, that extension alone is left out of    *)
(* the registry, the handlers configured after it are still started, and   *)
(* the LogProcessor ends only on an unresolvable handler or on an event    *)
(* the loop fails on, never on the failed construction.                    *)
C8_ConstructFailureIsolated ==
  \A i \in 1..Len(logrecords) :
    logrecords[i].exc = "construct" =>
      /\ logrecords[i].level = "ERROR"
      /\ logrecords[i].msg = ""
      /\ ~Registered(logrecords[i].ev)
      /\ \A j \in 1..Len(logrecords) :
           (logrecords[j].exc \in StartSteps /\ logrecords[j].ev = logrecords[i].ev)
             => j = i
      /\ \A k \in 1..(handler_index - 1) :
           ( /\ log_settings.handlers[k] = "TEST"
             /\ \A j \in 1..Len(logrecords) :
                  ~(logrecords[j].exc \in StartSteps /\ logrecords[j].ev = k) )
           => Registered(k)
      /\ pc = "dead" =>
           /\ logrecords[Len(logrecords)].msg = "Logger main task exception"
           /\ logrecords[Len(logrecords)].exc \in
                {"import", "await None", "Unknown object in queue!"}

(* The first handler's construction failed, the second handler was         *)
(* started and has received an event from the running loop.                *)
C8_Witness ==
  /\ \E i \in 1..Len(logrecords) :
       logrecords[i].exc = "construct" /\ logrecords[i].ev = 1
  /\ Registered(2)
  /\ \E taskid \in DOMAIN tasks : Len(Received(taskid)) >= 1
  /\ pc = "run"

(* C9: an object of unrecognized kind is the last one ever dequeued: the   *)
(* loop has ended, its error was logged exactly once, as the last record,  *)
(* and no mailbox holds an event enqueued after it.                        *)
C9_UnknownObjectIsFatal ==
  \A k \in 1..log_queue.got :
    Dequeued[k].kind \notin KnownKinds =>
      /\ k = log_queue.got
      /\ pc = "dead"
      /\ Cardinality({i \in 1..Len(logrecords) :
                        /\ logrecords[i].level = "ERROR"
                        /\ logrecords[i].msg = "Logger main task exception"
                        /\ logrecords[i].ev = Dequeued[k].seq}) = 1
      /\ logrecords[Len(logrecords)].exc = "Unknown object in queue!"
      /\ \A taskid \in DOMAIN extensions_tasks : Received(taskid) = Dequeued

(* An unknown object was dequeued and an event enqueued after it waits     *)
(* on the ingress queue of the ended loop.                                 *)
C9_Witness ==
  /\ pc = "dead"
  /\ log_queue.got = 1
  /\ Len(log_queue.items) = 2
  /\ log_queue.items[1].kind = "Unknown"
  /\ \E taskid \in DOMAIN extensions_tasks : Received(taskid) = Dequeued

(* C10: with logdir configured, every handled ProxyData event is either    *)
(* logged at debug severity (its write completed) or has an error record   *)
(* (its write failed).                                                     *)
C10_WriteFailureLogged ==
  log_settings.logdir =>
    \A j \in 1..Len(ProxyEvents) :
      \/ Logged("DEBUG", "ProxyData", ProxyEvents[j].seq)
      \/ \E i \in 1..Len(logrecords) :
           /\ logrecords[i].level = "ERROR"
           /\ logrecords[i].ev = ProxyEvents[j].seq

(* C11: a handled Connection event is logged at informational severity    *)
(* and raises no error: the loop is still running after it.                *)
C11_ConnectionKeepsLoopRunning ==
  \A k \in 1..log_queue.got :
    Dequeued[k].kind = "Connection" =>
      /\ \E i \in 1..Len(logrecords) :
           /\ logrecords[i].level = "INFO"
           /\ logrecords[i].msg = "Connection"
           /\ logrecords[i].ev = Dequeued[k].seq
      /\ ~\E i \in 1..Len(logrecords) :
            /\ logrecords[i].level = "ERROR"
            /\ logrecords[i].ev = Dequeued[k].seq
      /\ pc = "run"

(* C12: under fair scheduling of the LogProcessor, whatever the extensions *)
(* do or fail to do, the n-th event put on the ingress queue is eventually *)
(* dequeued, unless an error has ended the LogProcessor.                   *)
C12_NoBackpressure ==
  \A n \in 1..MaxEvents :
    (Len(log_queue.items) >= n) ~> (log_queue.got >= n \/ pc = "dead")

(* Every event was dequeued while an extension that is still running has   *)
(* drained nothing of its mailbox.                                         *)
C12_Witness ==
  /\ pc = "run"
  /\ log_queue.got = MaxEvents
  /\ \E taskid \in DOMAIN tasks :
       /\ tasks[taskid].state = "running"
       /\ extensions_tasks[taskid].extension_log_queue.got = 0
       /\ Len(Received(taskid)) = MaxEvents

(* C13: no step of the LogProcessor (startup, an event handled, a          *)
(* diagnostic or an exception logged) puts anything on the ingress queue,  *)
(* and no entry of the ingress queue or of a mailbox comes from the        *)
(* LogProcessor's own log helper.                                          *)
C13_OwnLogStaysOffIngress ==
  [][ /\ ( \/ pc' # pc
           \/ logrecords' # logrecords
           \/ log_queue'.got # log_queue.got
           \/ extension_task_id' # extension_task_id )
         => log_queue'.items = log_queue.items
      /\ \A i \in 1..Len(log_queue'.items) :
           log_queue'.items[i].src # "LogProcessor"
      /\ \A taskid \in DOMAIN extensions_tasks' :
           \A i \in 1..Len(extensions_tasks'[taskid].extension_log_queue.items) :
             extensions_tasks'[taskid].extension_log_queue.items[i].src
               # "LogProcessor" ]_vars

(* The loop handled a Credential and an EmailEntry, logging a notice for   *)
(* each, and the ingress queue holds just these two events.                *)
C13_Witness ==
  /\ log_queue.got = 2
  /\ Len(log_queue.items) = 2
  /\ Logged("INFO", "Credential", 1)
  /\ Logged("INFO", "You got mail!", 2)
  /\ \E taskid \in DOMAIN extensions_tasks : Len(Received(taskid)) = 2

(* C14: the task of every started extension runs the lifecycle wrapper:    *)
(* before main takes its first event the wrapper has logged the start      *)
(* notice, a debug LogEntry of the extension on the ingress queue.         *)
C14_StartNoticeBeforeMain ==
  \A taskid \in DOMAIN tasks :
    extensions_tasks[taskid].extension_log_queue.got > 0 =>
      \E i \in 1..Len(log_queue.items) :
        /\ log_queue.items[i].kind = "LogEntry"
        /\ log_queue.items[i].src = ModuleName
        /\ log_queue.items[i].level = "DEBUG"

(* C15: each log call of an extension puts exactly one LogEntry carrying   *)
(* the extension's module name on the ingress queue, and once the loop has *)
(* dequeued it every registered mailbox, the emitting extension's own      *)
(* included, holds it at the position at which it was dequeued.            *)
C15_ExtensionLogIsBroadcast ==
  /\ Cardinality({i \in 1..Len(log_queue.items) :
                    log_queue.items[i].src = ModuleName})
       = Cardinality({taskid \in DOMAIN tasks : tasks[taskid].state = "ended"})
  /\ \A i \in 1..Len(log_queue.items) :
       log_queue.items[i].src = ModuleName =>
         /\ log_queue.items[i].kind = "LogEntry"
         /\ log_queue.items[i].level = "ERROR"
  /\ \A k \in 1..log_queue.got :
       Dequeued[k].src = ModuleName =>
         \A taskid \in DOMAIN extensions_tasks :
           /\ Len(Received(taskid)) >= k
           /\ Received(taskid)[k] = Dequeued[k]

(* Extension 0 logged its error, the loop dequeued the entry and put it on *)
(* extension 0's own mailbox.                                              *)
C15_Witness ==
  /\ 0 \in DOMAIN tasks
  /\ tasks[0].state = "ended"
  /\ log_queue.got = 2
  /\ Len(Received(0)) = 2
  /\ Received(0)[2].src = ModuleName
  /\ Received(0)[2].kind = "LogEntry"

(* C16: every registered mailbox holds exactly the sequence of events      *)
(* dequeued so far, also when the loop has ended on the last of them, and  *)
(* every event that has left a kind-specific effect (a log record, an      *)
(* artifact, a dedup-cache entry) is in every registered mailbox.          *)
C16_BroadcastBeforeDispatch ==
  \A taskid \in DOMAIN extensions_tasks :
    /\ Received(taskid) = Dequeued
    /\ \A i \in 1..Len(logrecords) :
         (logrecords[i].ev > 0 /\ logrecords[i].exc \notin StartSteps \cup {"import"})
           => \E j \in 1..Len(Received(taskid)) :
                Received(taskid)[j].seq = logrecords[i].ev
    /\ \A fp \in DOMAIN result_history :
         \E j \in 1..Len(Received(taskid)) :
           Received(taskid)[j] = result_history[fp]
    /\ \A i \in 1..Len(files.creds) :
         \E j \in 1..Len(Received(taskid)) :
           ToJson(Received(taskid)[j]) = files.creds[i]

(* The loop ended on a Connection event, handled after another event, and  *)
(* a registered mailbox holds both.                                        *)
C16_Witness ==
  /\ pc = "dead"
  /\ log_queue.got = 2
  /\ Dequeued[2].kind = "Connection"
  /\ \E taskid \in DOMAIN extensions_tasks :
       /\ Len(Received(taskid)) = 2
       /\ Received(taskid)[2] = Dequeued[2]

(* The dequeued Credential events before position k with the fingerprint   *)
(* of the k-th dequeued event.                                             *)
EarlierSame(k) ==
  {j \in 1..(k - 1) : /\ Dequeued[j].kind = "Credential"
                      /\ Dequeued[j].fingerprint = Dequeued[k].fingerprint}

CacheIsFirstSeen ==
  /\ DOMAIN result_history =
       {Dequeued[k].fingerprint :
          k \in {n \in 1..Len(Dequeued) : Dequeued[n].kind = "Credential"}}
  /\ \A k \in 1..Len(Dequeued) :
       Dequeued[k].kind = "Credential" =>
         /\ (EarlierSame(k) = {}) =>
              result_history[Dequeued[k].fingerprint] = Dequeued[k]
         /\ Logged("INFO", "Credential", k) <=> (EarlierSame(k) = {})
         /\ Logged("INFO", "Duplicate result found! Filtered.", k)
              <=> (EarlierSame(k) # {})

CacheOnlyGrows ==
  \A fp \in DOMAIN result_history :
    /\ fp \in DOMAIN result_history'
    /\ result_history'[fp] = result_history[fp]

(* C17: the dedup cache only grows and an entry is never overwritten; its  *)
(* keys are the fingerprints of the Credential events handled so far, each *)
(* mapped to the first of them, and a Credential event gets the "new"      *)
(* notice iff no earlier one had its fingerprint, the "duplicate" notice   *)
(* otherwise.                                                              *)
C17_CacheKeepsFirstSeen == []CacheIsFirstSeen /\ [][CacheOnlyGrows]_vars

(* Two credentials with one fingerprint were handled: the first is cached, *)
(* the second was reported as a duplicate.                                 *)
C17_Witness ==
  /\ log_queue.got = 2
  /\ Dequeued[1].kind = "Credential"
  /\ Dequeued[2].kind = "Credential"
  /\ Dequeued[1].fingerprint = Dequeued[2].fingerprint
  /\ result_history[Dequeued[1].fingerprint] = Dequeued[1]
  /\ Logged("INFO", "Duplicate result found! Filtered.", 2)

(* The starts that failed at the given steps, by configured handler.       *)
FailedStarts(steps) ==
  {logrecords[i].ev : i \in {n \in 1..Len(logrecords) : logrecords[n].exc \in steps}}

(* The id the start of the k-th configured handler reads from the counter: *)
(* one per earlier start that got past the construction of its entry.      *)
IdOfStart(k) == (k - 1) - Cardinality({h \in FailedStarts({"alloc"}) : h < k})

(* C18: each registry key is its entry's id; ids grow strictly in start    *)
(* order; an id taken by a start that failed after taking it belongs to no *)
(* registry entry, and the counter is past every id handed out.            *)
C18_IdsUniqueAndIncreasing ==
  /\ \A taskid \in DOMAIN extensions_tasks :
       /\ extensions_tasks[taskid].taskid = taskid
       /\ taskid = IdOfStart(extensions_tasks[taskid].extension_config)
       /\ taskid < extension_task_id
  /\ \A t1, t2 \in DOMAIN extensions_tasks :
       (extensions_tasks[t1].extension_config < extensions_tasks[t2].extension_config)
         <=> (t1 < t2)
  /\ \A k \in FailedStarts({"construct", "coro", "register"}) :
       /\ IdOfStart(k) \notin DOMAIN extensions_tasks
       /\ IdOfStart(k) < extension_task_id
  /\ extension_task_id =
       Cardinality(DOMAIN extensions_tasks)
         + Cardinality(FailedStarts({"construct", "coro", "register"}))

(* The first start failed after taking id 0; the second one registered     *)
(* under id 1.                                                             *)
C18_Witness ==
  /\ 1 \in FailedStarts({"construct", "coro", "register"})
  /\ DOMAIN extensions_tasks = {1}
  /\ extensions_tasks[1].extension_config = 2
  /\ extension_task_id = 2

(* The extension task behind a registry entry no longer reads its mailbox: *)
(* it ended, or it was never scheduled.                                    *)
Ended(taskid) == taskid \notin DOMAIN tasks \/ tasks[taskid].state = "ended"

RegistryFrozen ==
  SetupCompleted =>
    /\ DOMAIN extensions_tasks' = DOMAIN extensions_tasks
    /\ \A taskid \in DOMAIN extensions_tasks :
         /\ extensions_tasks'[taskid].taskid = extensions_tasks[taskid].taskid
         /\ extensions_tasks'[taskid].extension_config =
              extensions_tasks[taskid].extension_config
         /\ extensions_tasks'[taskid].extension_handler =
              extensions_tasks[taskid].extension_handler
         /\ Ended(taskid) =>
              /\ Ended(taskid)'
              /\ Len(QPending(Mailbox(taskid))') >= Len(QPending(Mailbox(taskid)))
              /\ (log_queue'.got > log_queue.got) =>
                   /\ Received(taskid)' = Append(Received(taskid), QHead(log_queue))
                   /\ Len(QPending(Mailbox(taskid))') =
                        Len(QPending(Mailbox(taskid))) + 1

(* C19: once setup has completed no step adds, removes or re-keys a        *)
(* registry entry; the entry of an ended extension stays, every event      *)
(* dequeued later is appended to its mailbox, and the mailbox never        *)
(* shrinks.                                                                *)
C19_RegistryFrozenAfterSetup == [][RegistryFrozen]_vars

(* An extension ended on the first event and its mailbox holds the event   *)
(* broadcast after it ended.                                               *)
C19_Witness ==
  /\ 0 \in DOMAIN extensions_tasks
  /\ 0 \in DOMAIN tasks
  /\ tasks[0].state = "ended"
  /\ Len(Received(0)) = 2
  /\ Len(QPending(Mailbox(0))) = 1

(* The configured handlers whose resolution has failed.                    *)
FailedImports ==
  {logrecords[i].ev : i \in {n \in 1..Len(logrecords) : logrecords[n].exc = "import"}}

(* The handler configured at position h is registered and its task is      *)
(* scheduled and still running.                                            *)
Running(h) ==
  \E taskid \in DOMAIN extensions_tasks :
    /\ extensions_tasks[taskid].extension_config = h
    /\ taskid \in DOMAIN tasks
    /\ tasks[taskid].state = "running"

(* C20 as stated: when the resolution of the k-th handler has failed, each *)
(* of the k-1 handlers before it is registered and running, the loop has   *)
(* not started and every mailbox is empty.                                 *)
C20_EarlierHandlersAllRunning ==
  \A k \in FailedImports :
    /\ pc = "dead"
    /\ log_queue.got = 0
    /\ \A h \in 1..(k - 1) : Running(h)
    /\ \A taskid \in DOMAIN extensions_tasks : Received(taskid) = << >>

(* C20, amended: when the resolution of the k-th handler has failed, each  *)
(* handler before it whose start raised no error is registered and         *)
(* running, a handler whose start raised has no running task and is        *)
(* registered only if the error came from scheduling, the loop has not     *)
(* started and every mailbox is empty.                                     *)
C20_StartedHandlersStayRunning ==
  \A k \in FailedImports :
    /\ pc = "dead"
    /\ handler_index = k + 1
    /\ log_queue.got = 0
    /\ \A h \in 1..(k - 1) :
         IF h \in FailedStarts(StartSteps)
           THEN ~Running(h)
           ELSE Running(h)
    /\ \A h \in 1..(k - 1) :
         Registered(h) <=> h \notin FailedStarts(StartSteps \ {"schedule"})
    /\ \A taskid \in DOMAIN extensions_tasks : Received(taskid) = << >>

(* The second handler failed to resolve after the first one was started:   *)
(* the first is registered and running with an empty mailbox while events  *)
(* wait on the ingress queue.                                              *)
C20_Witness ==
  /\ 2 \in FailedImports
  /\ Running(1)
  /\ Received(0) = << >>
  /\ Len(log_queue.items) = MaxEvents

====
